---- MODULE Spec2Model ----
(***************************************************************************)
(* Model of the VIZ python client core:                                    *)
(*   vizapi/noderpc.py  NodeRPC.post_process_exception,                    *)
(*                      NodeRPC.updated_connection, Rpc.__getattr__.method *)
(*   viz/viz.py         Client.transfer, award, custom, withdraw_vesting,  *)
(*                      transfer_to_vesting, set_withdraw_vesting_route    *)
(*                                                                         *)
(* Python strings whose characters the code inspects (URLs, memos) are     *)
(* sequences of one-character strings.  Error messages are sequences of    *)
(* tokens: a token is either one character or one maximal literal run of   *)
(* the patterns in post_process_exception.  Python None is the token None. *)
(* Every handler is one action; what it did is recorded in `last`.         *)
(***************************************************************************)
EXTENDS Integers, Sequences, FiniteSets, TLC

VARIABLES
    conn_kwargs,   \* NodeRPC._kwargs: the connection options
    config,        \* Client.config: the client's configuration store
    request_id,    \* Rpc._request_id
    num_retries,   \* Rpc.num_retries
    sent,          \* number of queries handed to rpcexec on this connection
    last           \* record of the last handler that ran

vars == <<conn_kwargs, config, request_id, num_retries, sent, last>>

\* ---------------------------------------------------------------- bounds
MaxRequestId == 3
MaxMemoLen == 2
MaxAuths == 2

\* ------------------------------------------------------- python helpers
None == "None"

\* bool(x) is False for None and for the empty string
Falsy(x) == x = None \/ x = ""

\* s[:n]
Prefix(s, n) == SubSeq(s, 1, IF n < Len(s) THEN n ELSE Len(s))

\* kwargs.get(key, default), the default already evaluated by the caller
KwGet(kwargs, key, default) ==
    IF key \in DOMAIN kwargs THEN kwargs[key] ELSE default

EmptyKw == [k \in {} |-> 0]

Raise(error, detail) == [status |-> "raise", error |-> error, detail |-> detail]
Return(value) == [status |-> "return", value |-> value]

\* ============================================================ noderpc.py
\* ---------------------------------------------- NodeRPC.updated_connection
WS == <<"w", "s">>
HTTP == <<"h", "t", "t", "p">>
SchemeSep == <<":", "/", "/">>
Host == <<"n">>

Schemes ==
    { WS, WS \o <<"s">>, HTTP, HTTP \o <<"s">>,
      WS \o <<"x">>, HTTP \o <<"x">>,
      <<"f", "t", "p">>, <<"w">>, <<"h", "t", "t">>, <<>> }

Urls == { s \o SchemeSep \o Host : s \in Schemes }

updated_connection(url, kwargs) ==
    IF Prefix(url, 2) = WS
    THEN Return([transport |-> "Websocket", url |-> url, kwargs |-> kwargs])
    ELSE IF Prefix(url, 4) = HTTP
    THEN Return([transport |-> "Http", url |-> url, kwargs |-> kwargs])
    ELSE Raise("ValueError", "Only support http(s) and ws(s) connections!")

\* ------------------------------------------- NodeRPC.post_process_exception
T_MRAA == "missing required active authority"
T_CUR == "current_account_itr == acnt_indx"
T_ASSERT == "Assert Exception: is_valid_name"
T_NOMETH == "no method with name"

Whitespace == {" "}
Chars == {".", "(", ")", " ", "x"}
Tokens == Chars \cup {T_MRAA, T_CUR, "indices", "get<by_name>", "end",
                      T_ASSERT, "name", T_NOMETH}

\* regular-expression items: a literal run, `.`, `.*` and a group ( ... )
Lit(s) == [t |-> "lit", s |-> s, body |-> <<>>]
AnyChar == [t |-> "any", s |-> "", body |-> <<>>]
AnyStar == [t |-> "anystar", s |-> "", body |-> <<>>]
Group(body) == [t |-> "group", s |-> "", body |-> body]

\* line 32: "current_account_itr == acnt_indx.indices().get<by_name>().end()"
AccountPattern ==
    << Lit(T_CUR), AnyChar, Lit("indices"), Group(<<>>), AnyChar,
       Lit("get<by_name>"), Group(<<>>), AnyChar, Lit("end"), Group(<<>>) >>

\* line 35: "Assert Exception: is_valid_name( name )"
InvalidNamePattern ==
    << Lit(T_ASSERT), Group(<<Lit(" "), Lit("name"), Lit(" ")>>) >>

\* line 37: "^no method with name.*"
NoMethodPattern == << Lit(T_NOMETH), AnyStar >>

\* re.match(pattern, msg): the pattern must match a prefix of msg
RECURSIVE ReMatch(_, _)
ReMatch(pat, msg) ==
    IF pat = <<>> THEN TRUE
    ELSE LET p == Head(pat)
         IN  CASE p.t = "lit" ->
                    /\ msg # <<>>
                    /\ Head(msg) = p.s
                    /\ ReMatch(Tail(pat), Tail(msg))
               [] p.t = "any" ->
                    /\ msg # <<>>
                    /\ Head(msg) \in Chars
                    /\ ReMatch(Tail(pat), Tail(msg))
               [] p.t = "anystar" ->
                    \/ ReMatch(Tail(pat), msg)
                    \/ msg # <<>> /\ ReMatch(pat, Tail(msg))
               [] p.t = "group" ->
                    ReMatch(p.body \o Tail(pat), msg)

\* str.strip()
RECURSIVE LStrip(_)
LStrip(s) ==
    IF s # <<>> /\ Head(s) \in Whitespace THEN LStrip(Tail(s)) ELSE s

RECURSIVE RStrip(_)
RStrip(s) ==
    IF s # <<>> /\ s[Len(s)] \in Whitespace
    THEN RStrip(SubSeq(s, 1, Len(s) - 1)) ELSE s

Strip(s) == RStrip(LStrip(s))

\* vizapi/exceptions.py decodeRPCErrorMsg: the message text of the raw error
decodeRPCErrorMsg(e) == e.text

post_process_exception(e) ==
    LET msg == Strip(decodeRPCErrorMsg(e))
    IN  IF msg = <<T_MRAA>>
        THEN Raise("MissingRequiredActiveAuthority", <<>>)
        ELSE IF ReMatch(AccountPattern, msg)
        THEN Raise("AccountCouldntBeFoundException", msg)
        ELSE IF ReMatch(InvalidNamePattern, msg)
        THEN Raise("InvalidAccountNameException", msg)
        ELSE IF ReMatch(NoMethodPattern, msg)
        THEN Raise("NoMethodWithName", msg)
        ELSE IF msg # <<>>
        THEN Raise("UnhandledRPCError", msg)
        ELSE Raise(e.cls, e.text)

\* the texts the node sends for the two assertion failures
AccountLookupMissText ==
    << T_CUR, ".", "indices", "(", ")", ".", "get<by_name>", "(", ")",
       ".", "end", "(", ")" >>
InvalidNameText == << T_ASSERT, "(", " ", "name", " ", ")" >>

Messages ==
    { <<>>, <<" ", " ">>,
      <<" ", T_MRAA, " ">>, <<T_MRAA, " ", "x">>, <<"x", " ", T_MRAA>>,
      <<T_MRAA, T_NOMETH>>,
      AccountLookupMissText,
      AccountLookupMissText \o <<" ", "x">>,
      <<T_CUR, "x", "indices", "x", "get<by_name>", "x", "end">>,
      <<T_CUR, ".", "indices", ".", "get<by_name>", ".", "end", "(", ")">>,
      <<T_CUR, ".", "indices">>,
      InvalidNameText,
      InvalidNameText \o <<" ", "x">>,
      <<T_ASSERT, " ", "name", " ">>,
      <<T_ASSERT, " ", "name", " ", "x">>,
      <<T_ASSERT, "(", ")">>,
      <<T_NOMETH, " ", "x">>, <<" ", T_NOMETH, " ">>,
      <<"x", " ", T_NOMETH>>, <<T_NOMETH, T_MRAA>> }
    \cup { <<t>> : t \in Tokens }

ErrorClasses == {"RPCError", "NumRetriesReached"}
RawErrors == { [cls |-> c, text |-> m] : c \in ErrorClasses, m \in Messages }

\* ------------------------------------------------- Rpc.__getattr__.method
\* vizapi/consts.py API: the static method-name -> namespace table
API ==
    [ get_config |-> "database_api",
      broadcast_transaction |-> "network_broadcast_api" ]

MethodNames == DOMAIN API \cup {"frobnicate"}
Namespaces == {"custom_api"}
RetryChoices == {0, 2}
ArgLists == {<<>>, <<"alice">>}

CallKwargs ==
    {EmptyKw}
    \cup { [api |-> a] : a \in Namespaces }
    \cup { [num_retries |-> n] : n \in RetryChoices }
    \cup { [api |-> a, num_retries |-> n] : a \in Namespaces, n \in RetryChoices }

\* what the transport hands back for one query (rpcexec, retries included)
Replies ==
    { [kind |-> "result", payload |-> "ok"],
      [kind |-> "error", payload |-> "node error"],
      [kind |-> "transport_failure", payload |-> "connection lost"] }

\* API[name]: the lookup of a name that is not in the table fails with the
\* unknown-method error
Subscript(table, name) ==
    IF name \in DOMAIN table THEN Return(table[name])
    ELSE Raise("RpcProtocolError", name)

\* line 80: api = kwargs.get('api', API[name]); the argument API[name] is
\* evaluated before get() is called
ResolveApi_default(name, kwargs) ==
    KwGet(kwargs, "api", Return("database_api"))

ResolveApi(name, kwargs) ==
    LET dflt == Subscript(API, name)
    IN  IF dflt.status = "raise" THEN dflt
        ELSE Return(KwGet(kwargs, "api", dflt.value))

\* line 83: self.num_retries = kwargs.get("num_retries", self.num_retries)
SetRetries(kwargs, current) == KwGet(kwargs, "num_retries", current)

get_request_id(id) == id + 1

parse_response(reply) ==
    IF reply.kind = "error" THEN Raise("RPCError", reply.payload)
    ELSE Return(reply.payload)

rpcexec(query, reply) ==
    IF reply.kind = "transport_failure"
    THEN Raise("TransportError", reply.payload)
    ELSE Return(reply)

NoQuery == [method |-> "none"]

\* self = [request_id, num_retries, sent]; the result carries the new self
method(self, name, args, kwargs, reply) ==
    LET api == ResolveApi(name, kwargs)
    IN  IF api.status = "raise"
        THEN [self |-> self, query |-> NoQuery, outcome |-> api]
        ELSE LET retries == SetRetries(kwargs, self.num_retries)
                 id == get_request_id(self.request_id)
                 query == [method |-> "call",
                           params |-> <<api.value, name, args>>,
                           jsonrpc |-> "2.0",
                           id |-> id]
                 r == rpcexec(query, reply)
             IN  [self |-> [request_id |-> id, num_retries |-> retries,
                            sent |-> self.sent + 1],
                  query |-> query,
                  outcome |-> IF r.status = "raise" THEN r
                              ELSE parse_response(r.value)]

Call ==
    /\ request_id < MaxRequestId
    /\ \E name \in MethodNames, args \in ArgLists,
          kwargs \in CallKwargs, reply \in Replies :
          LET res == method([request_id |-> request_id,
                             num_retries |-> num_retries,
                             sent |-> sent],
                            name, args, kwargs, reply)
          IN  /\ request_id' = res.self.request_id
              /\ num_retries' = res.self.num_retries
              /\ sent' = res.self.sent
              /\ last' = [op |-> "call", name |-> name, args |-> args,
                          kwargs |-> kwargs, query |-> res.query,
                          limit |-> res.self.num_retries,
                          outcome |-> res.outcome]
    /\ UNCHANGED <<conn_kwargs, config>>

UpdatedConnection ==
    /\ \E url \in Urls :
          last' = [op |-> "updated_connection", url |-> url,
                   outcome |-> updated_connection(url, conn_kwargs)]
    /\ UNCHANGED <<conn_kwargs, config, request_id, num_retries, sent>>

PostProcessException ==
    /\ \E e \in RawErrors :
          last' = [op |-> "post_process_exception", e |-> e,
                   outcome |-> post_process_exception(e)]
    /\ UNCHANGED <<conn_kwargs, config, request_id, num_retries, sent>>

\* ================================================== properties: noderpc.py
IsCall == last.op = "call"
ExplicitApi == "api" \in DOMAIN last.kwargs
UnknownName == last.name \notin DOMAIN API
UnknownCall == IsCall /\ UnknownName /\ ~ExplicitApi

\* C1: a call of a method name that is not in the method-name -> namespace
\* table, made without an explicit api, fails with the unknown-method
\* RpcProtocolError; the step assigns no request id and sends no request.
C1_UnknownMethodFailsBeforeIO ==
    [][ UnknownCall' =>
          /\ last'.outcome = Raise("RpcProtocolError", last'.name)
          /\ last'.query = NoQuery
          /\ request_id' = request_id
          /\ sent' = sent ]_vars

\* C1 witness: an unknown method was called on a connection that has
\* already assigned request ids
C1_Witness == UnknownCall /\ request_id > 0 /\ last.outcome.status = "raise"

\* the scheme of a URL: the characters before the first ':'
RECURSIVE Scheme(_)
Scheme(url) ==
    IF url = <<>> \/ Head(url) = ":" THEN <<>>
    ELSE <<Head(url)>> \o Scheme(Tail(url))

\* C2 (as claimed): the WebSocket transport exactly for scheme ws or wss,
\* the HTTP transport exactly for http or https, ValueError and no transport
\* for every other scheme; the options reach the transport unchanged.
C2_SelectionByScheme ==
    last.op = "updated_connection" =>
        LET sch == Scheme(last.url)
        IN  IF sch \in {WS, WS \o <<"s">>}
            THEN last.outcome = Return([transport |-> "Websocket",
                                        url |-> last.url, kwargs |-> conn_kwargs])
            ELSE IF sch \in {HTTP, HTTP \o <<"s">>}
            THEN last.outcome = Return([transport |-> "Http",
                                        url |-> last.url, kwargs |-> conn_kwargs])
            ELSE last.outcome.status = "raise"

\* s begins with the text t
StartsWith(s, t) == Len(s) >= Len(t) /\ SubSeq(s, 1, Len(t)) = t

\* a message meets the lookup-miss rule when it is the node's lookup-miss
\* text (possibly followed by more) or is matched by the code's pattern;
\* likewise for the invalid-name rule
MeetsAccountRule(msg) ==
    StartsWith(msg, AccountLookupMissText) \/ ReMatch(AccountPattern, msg)
MeetsInvalidNameRule(msg) ==
    StartsWith(msg, InvalidNameText) \/ ReMatch(InvalidNamePattern, msg)

\* the classification the ordered rules describe, a message being the
\* decoded, stripped text of the raw error
Classified(e) ==
    LET msg == Strip(e.text)
    IN  IF msg = <<T_MRAA>>
        THEN "MissingRequiredActiveAuthority"
        ELSE IF MeetsAccountRule(msg)
        THEN "AccountCouldntBeFoundException"
        ELSE IF MeetsInvalidNameRule(msg)
        THEN "InvalidAccountNameException"
        ELSE IF StartsWith(msg, <<T_NOMETH>>)
        THEN "NoMethodWithName"
        ELSE IF msg # <<>>
        THEN "UnhandledRPCError"
        ELSE e.cls

\* C3 (as claimed): every raw error raises the error of the first rule its
\* message meets: the missing-authority text, the account lookup-miss text,
\* the invalid-name assertion text, the "no method with name" prefix, any
\* other non-empty message (carried along), else the original error.
C3_OrderedFirstMatch ==
    last.op = "post_process_exception" =>
        /\ last.outcome.status = "raise"
        /\ last.outcome.error = Classified(last.e)
        /\ Classified(last.e) = "UnhandledRPCError"
              => last.outcome.detail = Strip(last.e.text)
        /\ Strip(last.e.text) = <<>>
              => last.outcome = Raise(last.e.cls, last.e.text)

\* C9 (as claimed): a call that does not pass num_retries runs with the
\* retry limit the connection was configured with.
C9_OverrideIsPerCall ==
    (IsCall /\ last.query # NoQuery /\ "num_retries" \notin DOMAIN last.kwargs)
        => last.limit = conn_kwargs.num_retries

\* C10 (as claimed): a call that passes api explicitly is assigned a request
\* id and sent in the envelope with the supplied namespace, whatever its
\* method name.
C10_ExplicitApiBypassesTable ==
    [][ (IsCall' /\ ExplicitApi' /\ last' # last) =>
          /\ request_id' = request_id + 1
          /\ sent' = sent + 1
          /\ last'.query = [method |-> "call",
                            params |-> <<last'.kwargs.api, last'.name, last'.args>>,
                            jsonrpc |-> "2.0",
                            id |-> request_id'] ]_vars

\* ================================================================ viz.py
\* vizbase/chains.py PRECISIONS and the connected network's symbols
PRECISIONS == [VIZ |-> 3, SHARES |-> 6]
chain_params == [core_symbol |-> "VIZ", shares_symbol |-> "SHARES"]

\* self.rpc.config['CHAIN_1_PERCENT']
CHAIN_1_PERCENT == 100

\* ------------------------------------------------------ python numerics
\* Fractional numbers are exact dyadic rationals: a percentage is a count of
\* sixteenths, so that the floating-point product with CHAIN_1_PERCENT is
\* exact.  int(num / den) truncates toward zero.
PyInt(num, den) ==
    IF num >= 0 THEN num \div den ELSE -((-num) \div den)

\* round(num / den): to nearest, ties to even
PyRound(num, den) ==
    LET q == num \div den
        r == num % den
    IN  IF 2 * r < den THEN q
        ELSE IF 2 * r > den THEN q + 1
        ELSE IF q % 2 = 0 THEN q ELSE q + 1

RECURSIVE Pow10(_)
Pow10(n) == IF n = 0 THEN 1 ELSE 10 * Pow10(n - 1)

\* "{:.{prec}f} {asset}".format(float(amount), ...): amount is a count of
\* millionths; the text shows it to prec decimals
FormatFixed(amount, prec, asset) ==
    [digits |-> PyRound(amount, Pow10(6 - prec)), prec |-> prec, asset |-> asset]

\* viz/amount.py: str(Amount("{} {}".format(amount, asset)))
Amount(amount, asset) == FormatFixed(amount, PRECISIONS[asset], asset)

\* ------------------------------------------------- the acting account
\* lines 104-106: fall back to config["default_account"]
ResolveAccount(account, cfg) ==
    IF Falsy(account) /\ "default_account" \in DOMAIN cfg
    THEN cfg["default_account"]
    ELSE account

\* line 107: if not account
MissingAccount_none(account) == account = None

MissingAccount(account) == Falsy(account)

NoAccountError == Raise("ValueError", "You need to provide an account")

\* ------------------------------------------------------- collaborators
\* viz/memo.py Memo(from_account, to_account).encrypt(memo)
Encrypt(memo, from, to) == <<"#", "ciphertext", from, to>> \o memo

\* what the collaborators do during one call: the memo codec may fail to
\* find a key, finalizeOp returns a receipt or a proposal or raises
Envs ==
    { [encrypt |-> "ok", fin |-> Return("receipt")],
      [encrypt |-> "ok", fin |-> Return("proposal")],
      [encrypt |-> "ok", fin |-> Raise("BroadcastError", "rejected")],
      [encrypt |-> "raise", fin |-> Return("receipt")] }

Fins == { [encrypt |-> "ok", fin |-> f] :
            f \in {Return("receipt"), Raise("BroadcastError", "rejected")} }

EvAmount(text) == [e |-> "Amount", text |-> text]
EvEncrypt(memo, from, to) == [e |-> "encrypt", memo |-> memo, from |-> from, to |-> to]
EvOperation(op) == [e |-> "Operation", op |-> op]
EvFinalize(op, account, role) ==
    [e |-> "finalizeOp", op |-> op, account |-> account, role |-> role]

\* op = operations.X(**{...}); return self.finalizeOp(op, account, role)
Finish_retry(events, op, account, role, fin) ==
    [events |-> events \o <<EvOperation(op), EvFinalize(op, account, role)>>
                       \o (IF fin.status = "raise"
                           THEN <<EvFinalize(op, account, role)>> ELSE <<>>),
     outcome |-> fin]

Finish(events, op, account, role, fin) ==
    [events |-> events \o <<EvOperation(op), EvFinalize(op, account, role)>>,
     outcome |-> fin]

Failed(events, error) == [events |-> events, outcome |-> error]

\* ------------------------------------------------------ Client.transfer
\* line 112: if memo and memo[0] == "#"
NeedsEncryption_any(memo) == memo # <<>> /\ \E i \in 1..Len(memo) : memo[i] = "#"

NeedsEncryption(memo) == memo # <<>> /\ memo[1] = "#"

transfer(cfg, to, amount, asset, memo, account, env) ==
    LET acct == ResolveAccount(account, cfg)
    IN  IF MissingAccount(acct) THEN Failed(<<>>, NoAccountError)
        ELSE
        LET amt == Amount(amount, asset)
            ev1 == <<EvAmount(amt)>>
            ev2 == ev1 \o <<EvEncrypt(memo, acct, to)>>
            Op(m) == [type |-> "transfer", from |-> acct, to |-> to,
                      amount |-> amt, memo |-> m]
        IN  IF NeedsEncryption(memo)
            THEN IF env.encrypt = "raise"
                 THEN Failed(ev2, Raise("KeyNotFound", acct))
                 ELSE Finish(ev2, Op(Encrypt(memo, acct, to)), acct, "active", env.fin)
            ELSE Finish(ev1, Op(memo), acct, "active", env.fin)

\* --------------------------------------------------------- Client.award
\* arguments that may be None, a list or a string carry their python type
PyNone == [t |-> "none", v |-> <<>>]
PyList(v) == [t |-> "list", v |-> v]
PyStr(v) == [t |-> "str", v |-> <<v>>]

award(cfg, receiver, energy, memo, beneficiaries, account, kwargs, env) ==
    LET acct == ResolveAccount(account, cfg)
    IN  IF MissingAccount(acct) THEN Failed(<<>>, NoAccountError)
        ELSE
        LET bens == IF beneficiaries.t = "none" THEN <<>> ELSE beneficiaries.v
            op == [type |-> "award", initiator |-> acct, receiver |-> receiver,
                   energy |-> PyInt(energy * CHAIN_1_PERCENT, 16),
                   custom_sequence |-> KwGet(kwargs, "custom_sequence", 0),
                   memo |-> memo, beneficiaries |-> bens]
        IN  Finish(<<>>, op, acct, "regular", env.fin)

\* -------------------------------------------------------- Client.custom
\* lines 185-188: if x is None: x = []
OrEmpty(x) == IF x.t = "none" THEN PyList(<<>>) ELSE x

\* lines 193-202: account and key type from the two lists
CustomAuthority_regular_first(active, regular) ==
    IF Len(regular) > 0
    THEN Return([account |-> regular[1], role |-> "regular"])
    ELSE IF Len(active) > 0
    THEN Return([account |-> active[1], role |-> "active"])
    ELSE Raise("ValueError", "At least one account needs to be specified")

CustomAuthority(active, regular) ==
    IF Len(active) > 0
    THEN Return([account |-> active[1], role |-> "active"])
    ELSE IF Len(regular) > 0
    THEN Return([account |-> regular[1], role |-> "regular"])
    ELSE Raise("ValueError", "At least one account needs to be specified")

custom(id_, json, required_active_auths, required_regular_auths, env) ==
    LET active == OrEmpty(required_active_auths)
        regular == OrEmpty(required_regular_auths)
    IN  IF active.t # "list" \/ regular.t # "list"
        THEN Failed(<<>>, Raise("ValueError",
                 "Expected list for required_active_auths or required_regular_auths"))
        ELSE
        LET auth == CustomAuthority(active.v, regular.v)
        IN  IF auth.status = "raise" THEN Failed(<<>>, auth)
            ELSE Finish(<<>>,
                        [type |-> "custom", json |-> json,
                         required_active_auths |-> active.v,
                         required_regular_auths |-> regular.v,
                         id |-> id_],
                        auth.value.account, auth.value.role, env.fin)

\* ---------------------------------------------- Client.withdraw_vesting
withdraw_vesting(cfg, amount, account, env) ==
    LET acct == ResolveAccount(account, cfg)
    IN  IF MissingAccount(acct) THEN Failed(<<>>, NoAccountError)
        ELSE
        LET sym == chain_params["shares_symbol"]
            op == [type |-> "withdraw_vesting", account |-> acct,
                   vesting_shares |-> FormatFixed(amount, PRECISIONS[sym], sym)]
        IN  Finish(<<>>, op, acct, "active", env.fin)

\* ------------------------------------------- Client.transfer_to_vesting
transfer_to_vesting(cfg, amount, to, account, env) ==
    LET acct == ResolveAccount(account, cfg)
    IN  IF MissingAccount(acct) THEN Failed(<<>>, NoAccountError)
        ELSE
        LET dest == IF Falsy(to) THEN acct ELSE to
            sym == chain_params["core_symbol"]
            op == [type |-> "transfer_to_vesting", from |-> acct, to |-> dest,
                   amount |-> FormatFixed(amount, PRECISIONS[sym], sym)]
        IN  Finish(<<>>, op, acct, "active", env.fin)

\* ------------------------------------ Client.set_withdraw_vesting_route
set_withdraw_vesting_route(cfg, to, percentage, account, auto_vest, env) ==
    LET acct == ResolveAccount(account, cfg)
    IN  IF MissingAccount(acct) THEN Failed(<<>>, NoAccountError)
        ELSE
        LET op == [type |-> "set_withdraw_vesting_route",
                   from_account |-> acct, to_account |-> to,
                   percent |-> PyInt(percentage * CHAIN_1_PERCENT, 16),
                   auto_vest |-> auto_vest]
        IN  Finish(<<>>, op, acct, "active", env.fin)

\* ------------------------------------------------------- input domains
Accounts == {None, "", "alice"}
Letters == {"#", "a"}
Memos == UNION { [1..n -> Letters] : n \in 0..MaxMemoLen }
AmountsMicro == {1500000, 1234567}
\* percentages in sixteenths: 0, 0.1875, 0.5, 25, 50, 100
Sixteenths == {0, 3, 8, 400, 800, 1600}
AuthNames == {"alice", "bob"}
AuthLists == UNION { [1..n -> AuthNames] : n \in 0..MaxAuths }
AuthArgs == {PyNone, PyStr("alice")} \cup { PyList(l) : l \in AuthLists }
BeneficiaryLists == { <<>>, <<[account |-> "dave", weight |-> 50]>> }
Beneficiaries == {PyNone} \cup { PyList(l) : l \in BeneficiaryLists }
AwardKwargs == { EmptyKw, [custom_sequence |-> 7] }

Result(op, args, env, res) ==
    [op |-> op, args |-> args, env |-> env,
     events |-> res.events, outcome |-> res.outcome]

ClientFrame == UNCHANGED <<conn_kwargs, config, request_id, num_retries, sent>>

Transfer ==
    /\ \E to \in {"bob"}, amount \in {1500000}, asset \in DOMAIN PRECISIONS,
          memo \in Memos, account \in Accounts, env \in Envs :
          last' = Result("transfer",
                         [to |-> to, amount |-> amount, asset |-> asset,
                          memo |-> memo, account |-> account], env,
                         transfer(config, to, amount, asset, memo, account, env))
    /\ ClientFrame

Award ==
    /\ \E energy \in Sixteenths, beneficiaries \in Beneficiaries,
          account \in Accounts, kwargs \in AwardKwargs, env \in Fins :
          last' = Result("award",
                         [receiver |-> "bob", energy |-> energy, memo |-> <<"a">>,
                          beneficiaries |-> beneficiaries, account |-> account,
                          kwargs |-> kwargs], env,
                         award(config, "bob", energy, <<"a">>, beneficiaries,
                               account, kwargs, env))
    /\ ClientFrame

Custom ==
    /\ \E active \in AuthArgs, regular \in AuthArgs, env \in Fins :
          last' = Result("custom",
                         [id_ |-> "V", json |-> "{}",
                          required_active_auths |-> active,
                          required_regular_auths |-> regular], env,
                         custom("V", "{}", active, regular, env))
    /\ ClientFrame

WithdrawVesting ==
    /\ \E amount \in AmountsMicro, account \in Accounts, env \in Fins :
          last' = Result("withdraw_vesting",
                         [amount |-> amount, account |-> account], env,
                         withdraw_vesting(config, amount, account, env))
    /\ ClientFrame

TransferToVesting ==
    /\ \E amount \in AmountsMicro, to \in {None, "", "bob"},
          account \in Accounts, env \in Fins :
          last' = Result("transfer_to_vesting",
                         [amount |-> amount, to |-> to, account |-> account], env,
                         transfer_to_vesting(config, amount, to, account, env))
    /\ ClientFrame

SetWithdrawVestingRoute ==
    /\ \E percentage \in Sixteenths, account \in Accounts,
          auto_vest \in BOOLEAN, env \in Fins :
          last' = Result("set_withdraw_vesting_route",
                         [to |-> "bob", percentage |-> percentage,
                          account |-> account, auto_vest |-> auto_vest], env,
                         set_withdraw_vesting_route(config, "bob", percentage,
                                                    account, auto_vest, env))
    /\ ClientFrame

\* ====================================================== properties: viz.py
AccountActions ==
    {"transfer", "award", "withdraw_vesting", "transfer_to_vesting",
     "set_withdraw_vesting_route"}
BuilderActions == AccountActions \cup {"custom"}

HasDefault == "default_account" \in DOMAIN config /\ config["default_account"] # ""
Given(a) == a # None /\ a # ""

\* positions of the events of one kind in the last call
EventsOf(kind) == { i \in 1..Len(last.events) : last.events[i].e = kind }

\* the acting account an operation names
OpActor(op) ==
    CASE op.type \in {"transfer", "transfer_to_vesting"} -> op.from
      [] op.type = "award" -> op.initiator
      [] op.type = "withdraw_vesting" -> op.account
      [] op.type = "set_withdraw_vesting_route" -> op.from_account

\* every step of the last call that names an acting account names a
ActsAs(a) ==
    /\ last.events # <<>>
    /\ \A i \in 1..Len(last.events) :
          LET ev == last.events[i]
          IN  /\ ev.e = "encrypt" => ev.from = a
              /\ ev.e = "Operation" => OpActor(ev.op) = a
              /\ ev.e = "finalizeOp" => ev.account = a

\* C4: with no account given and no non-empty default_account configured,
\* each of the five account actions fails with the missing-account error
\* before anything else happens (no amount formatted, no memo encrypted, no
\* operation constructed, no finalizeOp); a given account is the one used,
\* otherwise the configured default is.
C4_MissingAccountFailsFirst ==
    last.op \in AccountActions =>
        /\ (~Given(last.args.account) /\ ~HasDefault)
              => (last.outcome = NoAccountError /\ last.events = <<>>)
        /\ Given(last.args.account) => ActsAs(last.args.account)
        /\ (~Given(last.args.account) /\ HasDefault)
              => ActsAs(config["default_account"])

\* C4 witness: a transfer with an empty account, an empty default and a memo
\* to encrypt failed on the account
C4_Witness ==
    /\ last.op = "transfer"
    /\ last.args.account = ""
    /\ config = [default_account |-> ""]
    /\ last.args.memo = <<"#", "a">>
    /\ last.outcome = NoAccountError

ListArg(x) == x.t \in {"none", "list"}

\* C5: custom with both lists empty (or omitted) raises and neither builds
\* an operation nor calls finalizeOp; otherwise the acting account is the
\* first active auth with role active when the active list is non-empty,
\* else the first regular auth with role regular; the operation carries
\* both lists as given.
C5_CustomAuthoritySelection ==
    (last.op = "custom" /\ ListArg(last.args.required_active_auths)
                        /\ ListArg(last.args.required_regular_auths)) =>
        LET A == last.args.required_active_auths.v
            R == last.args.required_regular_auths.v
        IN  IF A = <<>> /\ R = <<>>
            THEN /\ last.outcome.status = "raise"
                 /\ last.outcome.error = "ValueError"
                 /\ last.events = <<>>
            ELSE /\ Len(last.events) = 2
                 /\ last.events[1].e = "Operation"
                 /\ last.events[1].op.required_active_auths = A
                 /\ last.events[1].op.required_regular_auths = R
                 /\ last.events[2].e = "finalizeOp"
                 /\ last.events[2].account = (IF A # <<>> THEN A[1] ELSE R[1])
                 /\ last.events[2].role = (IF A # <<>> THEN "active" ELSE "regular")

\* C5 witness: both lists non-empty with different first entries
C5_Witness ==
    /\ last.op = "custom"
    /\ last.args.required_active_auths = PyList(<<"alice">>)
    /\ last.args.required_regular_auths = PyList(<<"bob", "alice">>)
    /\ last.events # <<>>

PercentBase == 100 * CHAIN_1_PERCENT

\* C6 (as claimed): award stores round(energy * percentBase / 100) in the
\* energy field and set_withdraw_vesting_route stores
\* round(percentage * percentBase / 100) in the percent field, an integer in
\* 0..percentBase, for every value in [0, 100], fractional values included.
C6_PercentBaseScaling ==
    /\ (last.op = "award" /\ last.events # <<>>) =>
          /\ last.events[1].op.energy
                = PyRound(last.args.energy * PercentBase, 16 * 100)
          /\ last.events[1].op.energy \in 0..PercentBase
    /\ (last.op = "set_withdraw_vesting_route" /\ last.events # <<>>) =>
          /\ last.events[1].op.percent
                = PyRound(last.args.percentage * PercentBase, 16 * 100)
          /\ last.events[1].op.percent \in 0..PercentBase

\* the acting account of the last call, from its arguments
Acting ==
    IF last.op = "custom"
    THEN LET A == last.args.required_active_auths.v
         IN  IF A # <<>> THEN A[1] ELSE last.args.required_regular_auths.v[1]
    ELSE IF Given(last.args.account) THEN last.args.account
    ELSE config["default_account"]

\* the role the table gives the last call
TableRole ==
    CASE last.op = "award" -> "regular"
      [] last.op = "custom" ->
            IF last.args.required_active_auths.v # <<>> THEN "active" ELSE "regular"
      [] OTHER -> "active"

\* the last call passed its own checks and its memo encryption
ValidationSucceeds ==
    IF last.op = "custom"
    THEN /\ ListArg(last.args.required_active_auths)
         /\ ListArg(last.args.required_regular_auths)
         /\ \/ last.args.required_active_auths.v # <<>>
            \/ last.args.required_regular_auths.v # <<>>
    ELSE /\ Given(last.args.account) \/ HasDefault
         /\ (last.op = "transfer" /\ last.args.memo # <<>>
                /\ last.args.memo[1] = "#") => last.env.encrypt = "ok"

\* C7: a builder call whose validation succeeds calls finalizeOp exactly
\* once, as its last step and right after constructing the operation, with
\* that operation, the acting account and the role of the table; the caller
\* receives what finalizeOp returned or raised.  A call whose validation
\* fails never calls finalizeOp.
C7_FinalizerExactlyOnce ==
    last.op \in BuilderActions =>
        IF ValidationSucceeds
        THEN LET n == Len(last.events)
             IN  /\ EventsOf("finalizeOp") = {n}
                 /\ n >= 2
                 /\ last.events[n - 1].e = "Operation"
                 /\ last.events[n].op = last.events[n - 1].op
                 /\ last.events[n].account = Acting
                 /\ last.events[n].role = TableRole
                 /\ last.outcome = last.env.fin
        ELSE /\ EventsOf("finalizeOp") = {}
             /\ last.outcome.status = "raise"

\* C7 witness: finalizeOp raised for an award and the caller got that error
C7_Witness ==
    /\ last.op = "award"
    /\ last.env.fin.status = "raise"
    /\ last.outcome = last.env.fin
    /\ EventsOf("finalizeOp") # {}

\* C8: in a transfer that has an acting account, the memo codec's encrypt is
\* called exactly when the memo is non-empty and starts with '#'; it is
\* called once, with the acting account as sender and `to` as recipient,
\* before the operation is constructed, and the operation carries the
\* ciphertext; otherwise the operation carries the memo as given.
C8_EncryptIffSentinel ==
    (last.op = "transfer" /\ (Given(last.args.account) \/ HasDefault)) =>
        LET sentinel == last.args.memo # <<>> /\ last.args.memo[1] = "#"
            encs == EventsOf("encrypt")
            ops == EventsOf("Operation")
        IN  /\ sentinel <=> encs # {}
            /\ sentinel =>
                  /\ Cardinality(encs) = 1
                  /\ \A i \in encs :
                        /\ last.events[i] = EvEncrypt(last.args.memo, Acting, last.args.to)
                        /\ \A j \in ops :
                              /\ i < j
                              /\ last.events[j].op.memo
                                    = Encrypt(last.args.memo, Acting, last.args.to)
                              /\ last.events[j].op.memo # last.args.memo
            /\ ~sentinel =>
                  /\ ops # {}
                  /\ \A j \in ops : last.events[j].op.memo = last.args.memo

\* C8 witness: a memo with '#' in second place only went out unencrypted,
\* and a memo starting with '#' was encrypted before the operation was built
C8_Witness ==
    /\ last.op = "transfer"
    /\ last.args.memo \in {<<"a", "#">>, <<"#", "a">>}
    /\ EventsOf("Operation") # {}
    /\ (last.args.memo[1] = "#") = (EventsOf("encrypt") # {})

\* ================================================================ system
ConnKwargs == { [num_retries |-> 1], [num_retries |-> 3, timeout |-> 5] }
Configs == { EmptyKw, [default_account |-> ""], [default_account |-> "carol"] }

\* the state after construction: a connection with its options, no request
\* issued yet
InitRpc ==
    /\ conn_kwargs \in ConnKwargs
    /\ config = EmptyKw
    /\ request_id = 0
    /\ num_retries = conn_kwargs.num_retries
    /\ sent = 0
    /\ last = [op |-> "init"]

InitClient ==
    /\ conn_kwargs = [num_retries |-> 1]
    /\ config \in Configs
    /\ request_id = 0
    /\ num_retries = conn_kwargs.num_retries
    /\ sent = 0
    /\ last = [op |-> "init"]

NextRpc ==
    \/ Call
    \/ UpdatedConnection
    \/ PostProcessException

NextClient ==
    \/ Transfer
    \/ Award
    \/ Custom
    \/ WithdrawVesting
    \/ TransferToVesting
    \/ SetWithdrawVestingRoute

\* the node-facing layer (vizapi/noderpc.py)
Spec == InitRpc /\ [][NextRpc]_vars

\* the operation builders (viz/viz.py)
SpecClient == InitClient /\ [][NextClient]_vars

====
